---------------------------- MODULE Spec2Model ----------------------------
(***************************************************************************)
(* A model of the Notice component of react-dsfr (src/src/Notice.tsx) and  *)
(* of the utilities it composes: the closed/open state machine with its    *)
(* two effects and its close button, the message table registered through  *)
(* createComponentI18nApi, the id given by useAnalyticsId, the class list  *)
(* composed by cx / fr.cx, and the NoticeProps type read as a set of       *)
(* accepted prop records.                                                  *)
(*                                                                         *)
(* The component runs under React.  What the model takes from React is its *)
(* documented contract for function components:                            *)
(*   - a render runs the component body with the props of the element and  *)
(*     the hook states obtained by applying, in order, the updates queued  *)
(*     since the previous render (updates are batched);                    *)
(*   - the commit that follows mounts / unmounts DOM nodes and calls a ref *)
(*     callback with the node on mount and with null on unmount;           *)
(*   - useEffect callbacks run after the commit, in declaration order,     *)
(*     on mount and whenever a dependency differs from its value at the    *)
(*     previous render, and all of them run before the next render;        *)
(*   - a functional update passed to a state setter runs either at once    *)
(*     (only when no update is pending) or during the next render.         *)
(***************************************************************************)
EXTENDS Naturals, Sequences, FiniteSets, TLC

VARIABLES
    \* ---- one Notice instance --------------------------------------------
    props,                   \* the props of the last render
    isClosed,                \* useState(props_isClosed ?? false)
    closedQueue,             \* updates queued by setIsClosed, not yet rendered
    buttonElement,           \* useState<HTMLButtonElement | null>(null)
    buttonQueue,             \* updates queued by setButtonElement (the ref)
    refShouldButtonGetFocus, \* useRef(false)
    refShouldSetRole,        \* useRef(false)
    effects,                 \* effects of the last commit that still have to run
    rendered,                \* the last render returned the <div>, not null
    domButton,               \* the close button in the DOM (Null: none)
    \* ---- observations of that instance ----------------------------------
    onCloseCalls,            \* number of calls of props.onClose
    onCloseArg,              \* the event of the last props.onClose call
    focusCalls,              \* number of buttonElement.focus() calls
    focusAttached,           \* the last focus() was on the button in the DOM
    reopenings,              \* number of times the updater saw closed -> open
    unreachableHit,          \* the "should not be reachable" return was taken
    everProvided,            \* some render had the isClosed prop
    clicks,                  \* number of clicks on the close button
    propChanges,             \* number of renders with changed props
    \* ---- the message registry of the Notice (createComponentI18nApi) ----
    messagesByLang,          \* language -> registered message table
    loadStep,                \* module-level statements of Notice.tsx done
    lang,                    \* the active language (owned by the host)
    calls,                   \* the addTranslations calls made so far, in order
    lastT,                   \* the lookups made since the last change
    registrations,           \* number of addNoticeTranslations calls by users
    \* ---- class names -----------------------------------------------------
    cxArgs,                  \* an argument list given to cx
    cxOut,                   \* what cx returned for it
    noticeProps,             \* a candidate props record (severity, icon, ...)
    rootClass,               \* className of the root <div> rendered from it
    frClassName,             \* the class names of the stylesheet (FrClassName)
    \* ---- ids of several Notice instances ---------------------------------
    idMemo,                  \* instance -> suffix kept for the instance
    idExplicit,              \* instance -> the id prop
    idReturned,              \* instance -> id of the last render
    idFirst,                 \* instance -> id of the first render without id prop
    idClosed,                \* instance -> the instance is closed
    idCounter,               \* suffixes given so far in this process
    idRenders,               \* number of re-renders
    idPropChanges,           \* number of re-renders that changed the id prop
    idReopened               \* instance -> a re-render has re-opened it

noticeVars ==
    << props, isClosed, closedQueue, buttonElement, buttonQueue,
       refShouldButtonGetFocus, refShouldSetRole, effects, rendered, domButton,
       onCloseCalls, onCloseArg, focusCalls, focusAttached, reopenings,
       unreachableHit, everProvided, clicks, propChanges >>

i18nVars ==
    << messagesByLang, loadStep, lang, calls, lastT, registrations >>

classVars == << cxArgs, cxOut, noticeProps, rootClass, frClassName >>

idVars ==
    << idMemo, idExplicit, idReturned, idFirst, idClosed, idCounter, idRenders,
       idPropChanges, idReopened >>

vars == << noticeVars, i18nVars, classVars, idVars >>

-----------------------------------------------------------------------------
(* Bounds of the exploration.                                              *)

MaxPropChanges == 4
MaxClicks == 2

-----------------------------------------------------------------------------
(* Optional values: undefined is the empty set, a present value v is {v}.  *)

Undefined == {}

Some(v) == {v}

IsDefined(o) == o # Undefined

ValueOf(o) == CHOOSE v \in o : TRUE

\* a ?? b
OrElse(o, d) == IF IsDefined(o) THEN ValueOf(o) ELSE d

\* The null of "HTMLButtonElement | null"; button elements are 1, 2, ...
Null == 0

-----------------------------------------------------------------------------
(* NoticeProps, the closable half: NonClosable | Controlled | Uncontrolled *)

NonClosable ==
    { [isClosable |-> FALSE, isClosed |-> Undefined, hasOnClose |-> FALSE] }

Controlled ==
    { [isClosable |-> TRUE, isClosed |-> Some(b), hasOnClose |-> TRUE] :
        b \in BOOLEAN }

Uncontrolled ==
    { [isClosable |-> TRUE, isClosed |-> Undefined, hasOnClose |-> h] :
        h \in BOOLEAN }

Closable == Controlled \cup Uncontrolled

ClosableProps == NonClosable \cup Closable


-----------------------------------------------------------------------------
(* The state hook of isClosed.  A queued update is a record: origin is     *)
(* "click" (setIsClosed(true) of the close button) or "effect" (the        *)
(* functional update of the isClosed effect), val is the value it returns  *)
(* and lazy says that the updater function has still to run, at render.    *)

\* A variant of the click update that sets the state to open.
ClickUpdateOpens == [origin |-> "click", lazy |-> FALSE, val |-> FALSE]

ClickUpdate == [origin |-> "click", lazy |-> FALSE, val |-> TRUE]

EffectUpdate(p, lazy) == [origin |-> "effect", lazy |-> lazy, val |-> p]

\* A variant of the updater test that forgets the isClosed conjunct.
UpdaterReopensWheneverOpen(closed, p) == ~p

\* "if (isClosed && !props_isClosed)": the updater asks for the focus.
UpdaterReopens(closed, p) == closed /\ ~p

\* A variant of the updater that returns the state it is given.
UpdaterKeepsState(closed, p) == closed

\* "return props_isClosed;"
UpdaterResult(closed, p) == p

\* Applying the queue q, in order, to the state closed: the state reached,
\* whether a run of the updater asked for the focus, and the number of
\* updater runs that took the state from closed to open.
RECURSIVE RunQueue(_, _)
RunQueue(q, closed) ==
    IF q = <<>>
    THEN [closed |-> closed, flagged |-> FALSE, reopened |-> 0]
    ELSE LET u == Head(q)
             next == IF u.lazy THEN UpdaterResult(closed, u.val) ELSE u.val
             hit == u.lazy /\ UpdaterReopens(closed, u.val)
             opened == IF u.lazy /\ closed /\ ~next THEN 1 ELSE 0
             rest == RunQueue(Tail(q), next)
         IN  [closed |-> rest.closed,
              flagged |-> (hit \/ rest.flagged),
              reopened |-> opened + rest.reopened]

\* The state hook of buttonElement: the last queued value wins.
RunButtonQueue(q, el) == IF q = <<>> THEN el ELSE q[Len(q)]

\* A DOM element that is not one of used.
NewElement(used) == CHOOSE n \in 1..(Cardinality(used) + 1) : n \notin used

-----------------------------------------------------------------------------
(* The render output.                                                      *)

\* "if (isClosed) { return null; }"
ReturnsNull(closed) == closed

\* "{isClosable && (<button ref={setButtonElement} ...>)}"
RendersButton(closed, p) == ~ReturnsNull(closed) /\ p.isClosable

\* useEffect(..., [props_isClosed]) and useEffect(..., [buttonElement]):
\* the effects whose dependency changed, in declaration order.
ChangedEffects(p, el) ==
    (IF p.isClosed # props.isClosed THEN <<"sync">> ELSE <<>>)
    \o (IF el # buttonElement THEN <<"focus">> ELSE <<>>)

-----------------------------------------------------------------------------
(* The state after the first render and commit with props p.               *)

InitNotice ==
    \E p \in ClosableProps :
        /\ props = p
        /\ isClosed = OrElse(p.isClosed, FALSE)
        /\ closedQueue = <<>>
        /\ buttonElement = Null
        /\ rendered = ~ReturnsNull(isClosed)
        /\ domButton = IF RendersButton(isClosed, p) THEN 1 ELSE Null
        /\ buttonQueue = IF domButton # Null THEN <<domButton>> ELSE <<>>
        /\ refShouldButtonGetFocus = FALSE
        /\ refShouldSetRole = FALSE
        /\ effects = <<"sync", "focus">>
        /\ onCloseCalls = 0
        /\ onCloseArg = 0
        /\ focusCalls = 0
        /\ focusAttached = FALSE
        /\ reopenings = 0
        /\ unreachableHit = FALSE
        /\ everProvided = IsDefined(p.isClosed)
        /\ clicks = 0
        /\ propChanges = 0

(* A render of the component with props p, and its commit.  React renders  *)
(* when the props changed or a state update is queued, after the effects   *)
(* of the previous commit have run.                                        *)
Render(p) ==
    /\ effects = <<>>
    /\ p # props \/ closedQueue # <<>> \/ buttonQueue # <<>>
    /\ p # props => propChanges < MaxPropChanges
    /\ LET r == RunQueue(closedQueue, isClosed)
           el == RunButtonQueue(buttonQueue, buttonElement)
           button == RendersButton(r.closed, p)
           mounted == IF button /\ domButton = Null
                      THEN NewElement({el}) ELSE Null
       IN  /\ props' = p
           /\ isClosed' = r.closed
           /\ closedQueue' = <<>>
           /\ buttonElement' = el
           /\ refShouldButtonGetFocus' = (refShouldButtonGetFocus \/ r.flagged)
           /\ refShouldSetRole' = (refShouldSetRole \/ r.flagged)
           /\ reopenings' = reopenings + r.reopened
           /\ rendered' = ~ReturnsNull(r.closed)
           /\ domButton' = IF button
                           THEN (IF domButton = Null THEN mounted ELSE domButton)
                           ELSE Null
           \* ref={setButtonElement}: the node on mount, null on unmount
           /\ buttonQueue' = IF button /\ domButton = Null THEN <<mounted>>
                             ELSE IF ~button /\ domButton # Null THEN <<Null>>
                             ELSE <<>>
           /\ effects' = ChangedEffects(p, el)
           /\ everProvided' = (everProvided \/ IsDefined(p.isClosed))
           /\ propChanges' = IF p # props THEN propChanges + 1 ELSE propChanges
    /\ UNCHANGED << onCloseCalls, onCloseArg, focusCalls, focusAttached,
                    unreachableHit, clicks >>
    /\ UNCHANGED << i18nVars, classVars, idVars >>

(* The effect on [props_isClosed].  The updater runs at once (eager) only  *)
(* when nothing is queued; an eager result equal to the state queues       *)
(* nothing.                                                                *)
SyncEffect ==
    /\ effects # <<>>
    /\ Head(effects) = "sync"
    /\ effects' = Tail(effects)
    /\ IF props.isClosed = Undefined
       THEN UNCHANGED << closedQueue, refShouldButtonGetFocus, refShouldSetRole,
                         reopenings >>
       ELSE LET p == ValueOf(props.isClosed)
            IN  \/ /\ closedQueue = <<>>
                   /\ buttonQueue = <<>>
                   /\ LET hit == UpdaterReopens(isClosed, p)
                          res == UpdaterResult(isClosed, p)
                      IN  /\ refShouldButtonGetFocus' = (refShouldButtonGetFocus \/ hit)
                          /\ refShouldSetRole' = (refShouldSetRole \/ hit)
                          /\ reopenings' = reopenings + (IF isClosed /\ ~res THEN 1 ELSE 0)
                          /\ closedQueue' = IF res = isClosed THEN <<>>
                                            ELSE <<EffectUpdate(res, FALSE)>>
                \/ /\ closedQueue' = Append(closedQueue, EffectUpdate(p, TRUE))
                   /\ UNCHANGED << refShouldButtonGetFocus, refShouldSetRole,
                                   reopenings >>
    /\ UNCHANGED << props, isClosed, buttonElement, buttonQueue, rendered,
                    domButton, onCloseCalls, onCloseArg, focusCalls,
                    focusAttached, unreachableHit, everProvided, clicks,
                    propChanges >>
    /\ UNCHANGED << i18nVars, classVars, idVars >>

(* The effect on [buttonElement].                                          *)
FocusEffect ==
    /\ effects # <<>>
    /\ Head(effects) = "focus"
    /\ effects' = Tail(effects)
    /\ IF ~refShouldButtonGetFocus
       THEN UNCHANGED << refShouldButtonGetFocus, focusCalls, focusAttached,
                         unreachableHit >>
       ELSE IF buttonElement = Null
       THEN /\ unreachableHit' = TRUE
            /\ UNCHANGED << refShouldButtonGetFocus, focusCalls, focusAttached >>
       ELSE /\ refShouldButtonGetFocus' = FALSE
            /\ focusCalls' = focusCalls + 1
            /\ focusAttached' = (buttonElement = domButton)
            /\ UNCHANGED unreachableHit
    /\ UNCHANGED << props, isClosed, closedQueue, buttonElement, buttonQueue,
                    refShouldSetRole, rendered, domButton, onCloseCalls,
                    onCloseArg, reopenings, everProvided, clicks, propChanges >>
    /\ UNCHANGED << i18nVars, classVars, idVars >>

(* A variant of the click handler that closes in controlled mode too.      *)
ClickAlwaysCloses ==
    /\ domButton # Null
    /\ effects = <<>>
    /\ clicks < MaxClicks
    /\ clicks' = clicks + 1
    /\ closedQueue' = Append(closedQueue, ClickUpdate)
    /\ IF props.hasOnClose
       THEN /\ onCloseCalls' = onCloseCalls + 1
            /\ onCloseArg' = clicks'
       ELSE UNCHANGED << onCloseCalls, onCloseArg >>
    /\ UNCHANGED << props, isClosed, buttonElement, buttonQueue,
                    refShouldButtonGetFocus, refShouldSetRole, effects, rendered,
                    domButton, focusCalls, focusAttached, reopenings,
                    unreachableHit, everProvided, propChanges >>
    /\ UNCHANGED << i18nVars, classVars, idVars >>

(* A click on the close button: onCloseButtonClick, which reads the props  *)
(* of the last render.  The event of the n-th click is n.                  *)
Click ==
    /\ domButton # Null
    /\ effects = <<>>
    /\ clicks < MaxClicks
    /\ clicks' = clicks + 1
    /\ IF props.isClosed = Undefined
       THEN /\ closedQueue' = Append(closedQueue, ClickUpdate)
            /\ IF props.hasOnClose
               THEN /\ onCloseCalls' = onCloseCalls + 1
                    /\ onCloseArg' = clicks'
               ELSE UNCHANGED << onCloseCalls, onCloseArg >>
       ELSE /\ onCloseCalls' = onCloseCalls + 1
            /\ onCloseArg' = clicks'
            /\ UNCHANGED closedQueue
    /\ UNCHANGED << props, isClosed, buttonElement, buttonQueue,
                    refShouldButtonGetFocus, refShouldSetRole, effects, rendered,
                    domButton, focusCalls, focusAttached, reopenings,
                    unreachableHit, everProvided, propChanges >>
    /\ UNCHANGED << i18nVars, classVars, idVars >>

-----------------------------------------------------------------------------
(* The other parts of the model at rest: what each specification leaves    *)
(* untouched.                                                              *)

IdleNotice ==
    /\ props = [isClosable |-> FALSE, isClosed |-> Undefined, hasOnClose |-> FALSE]
    /\ isClosed = FALSE
    /\ closedQueue = <<>>
    /\ buttonElement = Null
    /\ buttonQueue = <<>>
    /\ refShouldButtonGetFocus = FALSE
    /\ refShouldSetRole = FALSE
    /\ effects = <<>>
    /\ rendered = TRUE
    /\ domButton = Null
    /\ onCloseCalls = 0
    /\ onCloseArg = 0
    /\ focusCalls = 0
    /\ focusAttached = FALSE
    /\ reopenings = 0
    /\ unreachableHit = FALSE
    /\ everProvided = FALSE
    /\ clicks = 0
    /\ propChanges = 0

IdleI18n ==
    /\ messagesByLang = <<>>
    /\ loadStep = 0
    /\ lang = "fr"
    /\ calls = <<>>
    /\ lastT = <<>>
    /\ registrations = 0

IdleClass ==
    /\ cxArgs = <<>>
    /\ cxOut = Undefined
    /\ noticeProps = Undefined
    /\ rootClass = Undefined
    /\ frClassName = {}

IdleId ==
    /\ idMemo = <<>>
    /\ idExplicit = <<>>
    /\ idReturned = <<>>
    /\ idFirst = <<>>
    /\ idClosed = <<>>
    /\ idCounter = 0
    /\ idRenders = 0
    /\ idPropChanges = 0
    /\ idReopened = <<>>

-----------------------------------------------------------------------------
(* The Notice under React.                                                 *)

Init == InitNotice /\ IdleI18n /\ IdleClass /\ IdleId

Next ==
    \/ \E p \in ClosableProps : Render(p)
    \/ SyncEffect
    \/ FocusEffect
    \/ Click

Spec == Init /\ [][Next]_vars

(* React runs the effects of a commit and the render that a queued state   *)
(* update asks for; the parent and the user are not obliged to do anything.*)
FairSpec ==
    /\ Spec
    /\ WF_vars(SyncEffect)
    /\ WF_vars(FocusEffect)
    /\ WF_vars(Render(props))

(* The same Notice when every render is given Controlled props.            *)
InitControlled == Init /\ props \in Controlled

NextControlled ==
    \/ \E p \in Controlled : Render(p)
    \/ SyncEffect
    \/ FocusEffect
    \/ Click

SpecControlled == InitControlled /\ [][NextControlled]_vars

\* Nothing is left to run or to render.
Settled == effects = <<>> /\ closedQueue = <<>> /\ buttonQueue = <<>>

-----------------------------------------------------------------------------
(* The message registry.  createComponentI18nApi is not part of the files  *)
(* modelled here; CreateRegistry, AddTranslations and Translate follow its *)
(* contract: one table per language, a registration replaces the table of  *)
(* its language, a lookup takes the entry of the active language's table   *)
(* and falls back to the base table.                                       *)

MaxRegistrations == 2

BaseLang == "fr"

HideMessage == "hide message"

MessageKeys == {HideMessage}

Langs == {"fr", "en", "es", "de"}

\* The languages a caller may add: every language but the base one.
AdditionalLangs == Langs \ {BaseLang}

\* A variant of the base table that holds the English text.
NoticeFrMessagesInEnglish == [k \in {"hide message"} |-> "Hide the message"]

\* "frMessages": { "hide message": "Masquer le message" }
NoticeFrMessages == [k \in {HideMessage} |-> "Masquer le message"]

\* "messages": { "hide message": "Hide the message" }
NoticeEnMessages == [k \in {HideMessage} |-> "Hide the message"]

\* "messages": { "hide message": "Occultar el mesage" }
NoticeEsMessages == [k \in {HideMessage} |-> "Occultar el mesage"]

\* The tables a caller may register: Partial<FrMessages>.
UserTexts == {"Hide", "Ocultar", "Ausblenden"}

UserTables ==
    { [k \in d |-> v] : d \in SUBSET MessageKeys, v \in UserTexts }

CreateRegistry(frMessages) == [l \in {BaseLang} |-> frMessages]

\* A variant of the registration in which the first table of a language stays.
AddTranslationsFirstWins(reg, l, messages) ==
    [x \in (DOMAIN reg) \cup {l} |-> IF x \in DOMAIN reg THEN reg[x] ELSE messages]

AddTranslations(reg, l, messages) ==
    [x \in (DOMAIN reg) \cup {l} |-> IF x = l THEN messages ELSE reg[x]]

Translate(reg, l, key) ==
    IF l \in DOMAIN reg /\ key \in DOMAIN reg[l]
    THEN reg[l][key]
    ELSE reg[BaseLang][key]

\* A variant of the lookup that keeps the base table under a language it
\* found without a table.
UseTranslationMemoisingFallback(reg, l, key) ==
    [ text |-> Translate(reg, l, key),
      registry |-> IF l \in DOMAIN reg
                   THEN reg
                   ELSE [x \in (DOMAIN reg) \cup {l} |->
                            IF x = l THEN reg[BaseLang] ELSE reg[x]] ]

\* A lookup of the accessor: the text it resolves, and the registry it
\* leaves behind, which is the registry it found.
UseTranslation(reg, l, key) ==
    [ text |-> Translate(reg, l, key), registry |-> reg ]

\* The last two elements of a sequence.
LastTwo(q) == IF Len(q) <= 2 THEN q ELSE SubSeq(q, Len(q) - 1, Len(q))

\* const { useTranslation, addNoticeTranslations } = createComponentI18nApi(...)
InitI18n ==
    /\ messagesByLang = CreateRegistry(NoticeFrMessages)
    /\ loadStep = 0
    /\ lang \in Langs
    /\ calls = <<>>
    /\ lastT = <<>>
    /\ registrations = 0
    /\ IdleNotice /\ IdleClass /\ IdleId

Register(l, messages) ==
    /\ messagesByLang' = AddTranslations(messagesByLang, l, messages)
    /\ calls' = Append(calls, [lang |-> l, messages |-> messages])
    /\ lastT' = <<>>

\* addNoticeTranslations({ "lang": "en", ... }) at module level
LoadEn ==
    /\ loadStep = 0
    /\ loadStep' = 1
    /\ Register("en", NoticeEnMessages)
    /\ UNCHANGED << lang, registrations >>
    /\ UNCHANGED << noticeVars, classVars, idVars >>

\* addNoticeTranslations({ "lang": "es", ... }) at module level
LoadEs ==
    /\ loadStep = 1
    /\ loadStep' = 2
    /\ Register("es", NoticeEsMessages)
    /\ UNCHANGED << lang, registrations >>
    /\ UNCHANGED << noticeVars, classVars, idVars >>

\* export { addNoticeTranslations }: a call by a user of the library
AddNoticeTranslations(l, messages) ==
    /\ loadStep = 2
    /\ registrations < MaxRegistrations
    /\ registrations' = registrations + 1
    /\ Register(l, messages)
    /\ UNCHANGED << loadStep, lang >>
    /\ UNCHANGED << noticeVars, classVars, idVars >>

\* The host selects another language.
SetLang(l) ==
    /\ l # lang
    /\ lang' = l
    /\ lastT' = <<>>
    /\ UNCHANGED << messagesByLang, loadStep, calls, registrations >>
    /\ UNCHANGED << noticeVars, classVars, idVars >>

\* const { t } = useTranslation(); ... t("hide message")
TranslateHideMessage ==
    /\ loadStep = 2
    /\ LET r == UseTranslation(messagesByLang, lang, HideMessage)
       IN  /\ lastT' = LastTwo(Append(lastT, r.text))
           /\ messagesByLang' = r.registry
    /\ lastT' # lastT
    /\ UNCHANGED << loadStep, lang, calls, registrations >>
    /\ UNCHANGED << noticeVars, classVars, idVars >>

NextI18n ==
    \/ LoadEn
    \/ LoadEs
    \/ \E l \in AdditionalLangs, m \in UserTables : AddNoticeTranslations(l, m)
    \/ \E l \in Langs : SetLang(l)
    \/ TranslateHideMessage

SpecI18n == InitI18n /\ [][NextI18n]_vars

-----------------------------------------------------------------------------
(* Class names.  cx and fr.cx are not part of the files modelled here;     *)
(* they are modelled from their contract as the usual loop: every truthy   *)
(* string argument is appended, after a space when something precedes it.  *)
(* A class name is a string; an argument is a string, false or undefined.  *)

MaxArgs == 3

Str(s) == [t |-> "string", s |-> s]

False == [t |-> "false", s |-> ""]

Undef == [t |-> "undefined", s |-> ""]

\* cond && "token"
AndAlso(cond, s) == IF cond THEN Str(s) ELSE False

\* an optional string prop used as an argument
OfOptional(o) == IF IsDefined(o) THEN Str(ValueOf(o)) ELSE Undef

Truthy(arg) == arg.t = "string" /\ arg.s # ""

RECURSIVE CxLoop(_, _, _)
CxLoop(args, i, cls) ==
    IF i > Len(args)
    THEN cls
    ELSE CxLoop(args, i + 1,
                IF Truthy(args[i])
                THEN (IF cls # "" THEN cls \o " " ELSE cls) \o args[i].s
                ELSE cls)

cx(args) == CxLoop(args, 1, "")

frcx(args) == CxLoop(args, 1, "")

\* severity = "info", iconDisplayed = true: the defaults of the destructuring
SeverityOf(p) == OrElse(p.severity, "info")

IconDisplayedOf(p) == OrElse(p.iconDisplayed, TRUE)

\* A variant of the root class list that tests iconDisplayed, not its negation.
NoticeRootClassNameIconInverted(p) ==
    cx(<< Str(frcx(<< Str("fr-notice"),
                      Str("fr-notice--" \o SeverityOf(p)),
                      AndAlso(IconDisplayedOf(p), "fr-notice--no-icon") >>)),
          OfOptional(p.classesRoot),
          OfOptional(p.className) >>)

\* className={cx(fr.cx("fr-notice", `fr-notice--${severity}`,
\*     doNotDisplayIcon && "fr-notice--no-icon"), classes.root, className)}
NoticeRootClassName(p) ==
    LET doNotDisplayIcon == ~IconDisplayedOf(p)
    IN  cx(<< Str(frcx(<< Str("fr-notice"),
                          Str("fr-notice--" \o SeverityOf(p)),
                          AndAlso(doNotDisplayIcon, "fr-notice--no-icon") >>)),
              OfOptional(p.classesRoot),
              OfOptional(p.className) >>)

-----------------------------------------------------------------------------
(* NoticeProps.Severity and the icon half of NoticeProps, read as sets: a  *)
(* type is the set of values assignable to it, never is the empty set.     *)

StartsWith(s, prefix) ==
    Len(s) >= Len(prefix) /\ SubSeq(s, 1, Len(prefix)) = prefix

\* FrClassName extends `fr-notice--${infer Severity}` ? Severity : never
ExtractSeverity(c) ==
    IF StartsWith(c, "fr-notice--")
    THEN {SubSeq(c, Len("fr-notice--") + 1, Len(c))}
    ELSE {}

\* Exclude<ExtractSeverity<FrClassName>, "no-icon">
Severity == (UNION {ExtractSeverity(c) : c \in frClassName}) \ {"no-icon"}

\* Severity extends `weather-${infer _WeatherSeverity}` ? Severity : never
ExtractWeatherSeverity(sev) == IF StartsWith(sev, "weather-") THEN {sev} ELSE {}

WeatherSeverity == UNION {ExtractWeatherSeverity(sev) : sev \in Severity}

RiskyAlertSeverity == {"witness", "kidnapping", "attack", "cyberattack"}

\* Common: severity?: NoticeProps.Severity
InCommon(p) == p.severity \subseteq Severity

\* A variant of OptionalIcon whose severity is the whole of Severity.
InOptionalIconAnySeverity(p) ==
    /\ p.severity \subseteq Severity
    /\ p.iconDisplayed \subseteq BOOLEAN

InOptionalIcon(p) ==
    /\ p.severity \subseteq (Severity \ (RiskyAlertSeverity \cup WeatherSeverity))
    /\ p.iconDisplayed \subseteq BOOLEAN

InMandatoryIcon(p) ==
    /\ IsDefined(p.severity)
    /\ p.severity \subseteq (RiskyAlertSeverity \cup WeatherSeverity)
    /\ p.iconDisplayed \subseteq {TRUE}

\* NoticeProps = (...) & (OptionalIcon | MandatoryIcon), with Common
InNoticeProps(p) == InCommon(p) /\ (InOptionalIcon(p) \/ InMandatoryIcon(p))

-----------------------------------------------------------------------------
(* The inputs of the class-name specification.                             *)

ArgValues == {False, Undef, Str("fr-btn"), Str("fr-btn--close")}

ArgLists == UNION {[1..n -> ArgValues] : n \in 0..MaxArgs}

\* The stylesheet's classes of the notice, and two other versions of the
\* stylesheet: one without the alert notices, one with one more notice.
NoticeClasses ==
    { "fr-notice", "fr-notice--info", "fr-notice--warning", "fr-notice--alert",
      "fr-notice--weather-orange", "fr-notice--weather-red",
      "fr-notice--weather-purple", "fr-notice--witness",
      "fr-notice--kidnapping", "fr-notice--attack", "fr-notice--cyberattack",
      "fr-notice--no-icon", "fr-notice__body", "fr-notice__title",
      "fr-btn", "fr-btn--close", "fr-alert--success" }

Vocabularies ==
    { NoticeClasses,
      NoticeClasses \ {"fr-notice--witness", "fr-notice--kidnapping",
                       "fr-notice--attack", "fr-notice--cyberattack"},
      NoticeClasses \cup {"fr-notice--weather-green"} }

\* The severities a caller may write, valid or not.
SeveritySuffixes ==
    { "info", "warning", "alert", "weather-orange", "weather-red",
      "weather-purple", "weather-green", "witness", "kidnapping", "attack",
      "cyberattack", "no-icon", "success", "body" }

Optional(S) == {Undefined} \cup {Some(v) : v \in S}

CandidateProps ==
    [ severity : Optional(SeveritySuffixes),
      iconDisplayed : Optional(BOOLEAN),
      classesRoot : Optional({"my-root"}),
      className : Optional({"my-notice"}) ]

InitClass ==
    /\ \/ /\ cxArgs \in ArgLists
          /\ noticeProps = Undefined
          /\ frClassName = NoticeClasses
       \/ /\ cxArgs = <<>>
          /\ noticeProps \in {Some(p) : p \in CandidateProps}
          /\ frClassName \in Vocabularies
    /\ cxOut = Undefined
    /\ rootClass = Undefined
    /\ IdleNotice /\ IdleI18n /\ IdleId

CallCx ==
    /\ noticeProps = Undefined
    /\ cxOut = Undefined
    /\ cxOut' = Some(cx(cxArgs))
    /\ UNCHANGED << cxArgs, noticeProps, rootClass, frClassName >>
    /\ UNCHANGED << noticeVars, i18nVars, idVars >>

RenderRoot ==
    /\ noticeProps # Undefined
    /\ rootClass = Undefined
    /\ rootClass' = Some(NoticeRootClassName(ValueOf(noticeProps)))
    /\ UNCHANGED << cxArgs, cxOut, noticeProps, frClassName >>
    /\ UNCHANGED << noticeVars, i18nVars, idVars >>

NextClass == CallCx \/ RenderRoot

SpecClass == InitClass /\ [][NextClass]_vars

-----------------------------------------------------------------------------
(* Ids.  useAnalyticsId is not part of the files modelled here; it is      *)
(* modelled from its contract: an explicitly provided id is returned as it *)
(* is, otherwise the id is the prefix, a dash and a suffix that is chosen  *)
(* once for the instance and differs from the suffix of every other        *)
(* instance of the process.                                                *)

NInstances == 2
MaxMounts == 3
MaxRenders == 3

Instances == 1..NInstances

\* The suffix of the next instance of the process.
AllocateSuffix(counter) == counter + 1

UseAnalyticsId(params, memo) ==
    IF IsDefined(params.explicitlyProvidedId)
    THEN ValueOf(params.explicitlyProvidedId)
    ELSE params.defaultIdPrefix \o "-" \o ToString(memo)

\* A variant of the call that passes the prefix of another component.
NoticeIdAlertPrefix(id_props, memo) ==
    UseAnalyticsId([defaultIdPrefix |-> "fr-alert",
                    explicitlyProvidedId |-> id_props], memo)

\* const id = useAnalyticsId({ "defaultIdPrefix": "fr-notice",
\*                             "explicitlyProvidedId": id_props });
NoticeId(id_props, memo) ==
    UseAnalyticsId([defaultIdPrefix |-> "fr-notice",
                    explicitlyProvidedId |-> id_props], memo)

IsMounted(i) == idMemo[i] # 0

InitId ==
    /\ idMemo = [i \in Instances |-> 0]
    /\ idExplicit = [i \in Instances |-> Undefined]
    /\ idReturned = [i \in Instances |-> Undefined]
    /\ idFirst = [i \in Instances |-> Undefined]
    /\ idClosed = [i \in Instances |-> FALSE]
    /\ idCounter = 0
    /\ idRenders = 0
    /\ idPropChanges = 0
    /\ idReopened = [i \in Instances |-> FALSE]
    /\ IdleNotice /\ IdleI18n /\ IdleClass

\* The first render of instance i, with or without an id prop: the state
\* starts from useState(props_isClosed ?? false), so that a controlled
\* Notice given isClosed = true returns null from its first render, after
\* the hook has been called.
MountNotice(i, id_props, props_isClosed) ==
    /\ ~IsMounted(i)
    /\ idCounter < MaxMounts
    /\ LET memo == AllocateSuffix(idCounter)
           id == NoticeId(id_props, memo)
       IN  /\ idCounter' = memo
           /\ idMemo' = [idMemo EXCEPT ![i] = memo]
           /\ idExplicit' = [idExplicit EXCEPT ![i] = id_props]
           /\ idReturned' = [idReturned EXCEPT ![i] = Some(id)]
           /\ idFirst' = [idFirst EXCEPT ![i] =
                             IF IsDefined(id_props) THEN Undefined ELSE Some(id)]
           /\ idClosed' = [idClosed EXCEPT ![i] = OrElse(props_isClosed, FALSE)]
    /\ UNCHANGED << idRenders, idPropChanges, idReopened >>
    /\ UNCHANGED << noticeVars, i18nVars, classVars >>

\* A later render of instance i, closed or open, with the id prop of that
\* render: the hook is called with the current id_props at every render.
RerenderNotice(i, id_props, closed) ==
    /\ IsMounted(i)
    /\ idRenders < MaxRenders
    /\ idRenders' = idRenders + 1
    /\ idClosed' = [idClosed EXCEPT ![i] = closed]
    /\ LET id == NoticeId(id_props, idMemo[i])
       IN  /\ idExplicit' = [idExplicit EXCEPT ![i] = id_props]
           /\ idReturned' = [idReturned EXCEPT ![i] = Some(id)]
           /\ idFirst' = IF IsDefined(id_props) \/ IsDefined(idFirst[i])
                         THEN idFirst
                         ELSE [idFirst EXCEPT ![i] = Some(id)]
    /\ idPropChanges' = IF id_props # idExplicit[i]
                        THEN idPropChanges + 1 ELSE idPropChanges
    /\ idReopened' = IF idClosed[i] /\ ~closed
                     THEN [idReopened EXCEPT ![i] = TRUE] ELSE idReopened
    /\ UNCHANGED << idMemo, idCounter >>
    /\ UNCHANGED << noticeVars, i18nVars, classVars >>

\* Instance i is removed from the tree.
UnmountNotice(i) ==
    /\ IsMounted(i)
    /\ idMemo' = [idMemo EXCEPT ![i] = 0]
    /\ idExplicit' = [idExplicit EXCEPT ![i] = Undefined]
    /\ idReturned' = [idReturned EXCEPT ![i] = Undefined]
    /\ idFirst' = [idFirst EXCEPT ![i] = Undefined]
    /\ idClosed' = [idClosed EXCEPT ![i] = FALSE]
    /\ idReopened' = [idReopened EXCEPT ![i] = FALSE]
    /\ UNCHANGED << idCounter, idRenders, idPropChanges >>
    /\ UNCHANGED << noticeVars, i18nVars, classVars >>

NextId ==
    \/ \E i \in Instances, e \in Optional({"foo"}), c \in Optional(BOOLEAN) :
          MountNotice(i, e, c)
    \/ \E i \in Instances, e \in Optional({"foo"}), c \in BOOLEAN :
          RerenderNotice(i, e, c)
    \/ \E i \in Instances : UnmountNotice(i)

SpecId == InitId /\ [][NextId]_vars

-----------------------------------------------------------------------------
(* Helpers of the properties.                                              *)

Last(q) == q[Len(q)]

\* The right-to-left join of the truthy arguments with single spaces.
RECURSIVE JoinTruthy(_)
JoinTruthy(args) ==
    IF args = <<>>
    THEN ""
    ELSE LET rest == JoinTruthy(Tail(args))
             h == Head(args)
         IN  IF ~Truthy(h) THEN rest
             ELSE IF rest = "" THEN h.s
             ELSE h.s \o " " \o rest

\* The truthy arguments, as strings, in argument order.
TruthyTokens(args) ==
    LET kept == SelectSeq(args, Truthy)
    IN  [i \in 1..Len(kept) |-> kept[i].s]

\* The words of a string, split at spaces.
RECURSIVE SplitFrom(_, _, _, _)
SplitFrom(str, i, word, acc) ==
    IF i > Len(str)
    THEN (IF word = "" THEN acc ELSE Append(acc, word))
    ELSE IF SubSeq(str, i, i) = " "
    THEN SplitFrom(str, i + 1, "", IF word = "" THEN acc ELSE Append(acc, word))
    ELSE SplitFrom(str, i + 1, word \o SubSeq(str, i, i), acc)

Words(str) == SplitFrom(str, 1, "", <<>>)

HasWord(str, w) == \E i \in 1..Len(Words(str)) : Words(str)[i] = w

\* The root class list the Notice is expected to render for props p.
ExpectedRootClass(p) ==
    "fr-notice fr-notice--"
    \o (IF IsDefined(p.severity) THEN ValueOf(p.severity) ELSE "info")
    \o (IF p.iconDisplayed = Some(FALSE) THEN " fr-notice--no-icon" ELSE "")
    \o (IF IsDefined(p.classesRoot) THEN " " \o ValueOf(p.classesRoot) ELSE "")
    \o (IF IsDefined(p.className) THEN " " \o ValueOf(p.className) ELSE "")

\* The severities with a mandatory icon, as the claim lists them.
HasMandatoryIcon(sev) ==
    StartsWith(sev, "weather-")
    \/ sev \in {"witness", "kidnapping", "attack", "cyberattack"}

\* The severities of the candidate props that NoticeProps accepts.
AcceptedSeverities ==
    { ValueOf(p.severity) :
        p \in {q \in CandidateProps : IsDefined(q.severity) /\ InNoticeProps(q)} }

\* The suffixes S with fr-notice--S in the stylesheet, but for no-icon.
StylesheetSeverities ==
    {sev \in SeveritySuffixes : ("fr-notice--" \o sev) \in frClassName} \ {"no-icon"}

\* The languages of the addTranslations calls made so far.
RegisteredLangs == {calls[i].lang : i \in DOMAIN calls}

\* The table given by the last call made for language l.
LastTableOf(l) ==
    LET made == {i \in DOMAIN calls : calls[i].lang = l}
        last == CHOOSE i \in made : \A j \in made : j <= i
    IN  calls[last].messages

\* What a lookup of key k under a registered language l is to return.
ExpectedText(l, k) ==
    IF k \in DOMAIN LastTableOf(l)
    THEN LastTableOf(l)[k]
    ELSE "Masquer le message"

MountedWithoutId == {i \in Instances : IsMounted(i) /\ idExplicit[i] = Undefined}

-----------------------------------------------------------------------------
(* C1. An uncontrolled Notice (the isClosed prop has never been provided): *)
(* once a click on the close button has been rendered the Notice is closed *)
(* and renders null, it is closed only by such a click, and from a closed  *)
(* state every later step, whatever the re-renders, leaves it closed and   *)
(* rendering null as long as isClosed is still not provided.               *)
C1_UncontrolledCloseIsTerminal ==
    /\ [](~everProvided =>
            /\ (clicks > 0 /\ closedQueue = <<>>) => (isClosed /\ ~rendered)
            /\ isClosed => (clicks > 0 /\ ~rendered))
    /\ [][(~everProvided' /\ isClosed) => (isClosed' /\ ~rendered')]_vars

\* A closed uncontrolled Notice that has been re-rendered with other props.
C1_Witness ==
    /\ ~everProvided /\ isClosed /\ clicks > 0
    /\ propChanges >= 2 /\ Settled

(* C2. Controlled mode: whenever the effects have run and no state update  *)
(* is queued, the internal state is the isClosed prop of the last render   *)
(* and the Notice is rendered iff that prop is false.                      *)
C2_ControlledFollowsProp ==
    (IsDefined(props.isClosed) /\ Settled) =>
        /\ isClosed = ValueOf(props.isClosed)
        /\ rendered = ~ValueOf(props.isClosed)

\* A controlled Notice re-opened by its caller after a click and a close.
C2_Witness ==
    /\ props.isClosed = Some(FALSE) /\ Settled
    /\ ~isClosed /\ rendered /\ reopenings > 0 /\ clicks > 0

(* C3. A click on the close button, in controlled mode, calls onClose once *)
(* with the event of the click and changes neither the internal state nor  *)
(* its queue of updates; in uncontrolled mode it queues the closed state   *)
(* and calls onClose once iff one was supplied.  No step but a render      *)
(* changes the internal state, and a render of a Notice with no click      *)
(* pending changes it only to the value queued by the isClosed effect.     *)
C3_ClickFrame ==
    [][ /\ clicks' = clicks + 1 =>
             IF IsDefined(props.isClosed)
             THEN /\ onCloseCalls' = onCloseCalls + 1
                  /\ onCloseArg' = clicks'
                  /\ isClosed' = isClosed
                  /\ closedQueue' = closedQueue
             ELSE /\ Len(closedQueue') = Len(closedQueue) + 1
                  /\ Last(closedQueue').origin = "click"
                  /\ RunQueue(closedQueue', isClosed).closed
                  /\ isClosed' = isClosed
                  /\ onCloseCalls' = onCloseCalls + (IF props.hasOnClose THEN 1 ELSE 0)
                  /\ props.hasOnClose => onCloseArg' = clicks'
        /\ isClosed' # isClosed =>
             /\ closedQueue # <<>>
             /\ closedQueue' = <<>>
             /\ (\A i \in 1..Len(closedQueue) : closedQueue[i].origin = "effect")
                  => isClosed' = Last(closedQueue).val
      ]_vars

\* A controlled Notice still open after its close button has been clicked.
C3_Witness ==
    /\ IsDefined(props.isClosed) /\ clicks > 0 /\ onCloseCalls = clicks
    /\ onCloseArg = clicks /\ ~isClosed /\ closedQueue = <<>> /\ everProvided
    /\ Settled

(* C4 as stated: once the module of the Notice is loaded and no other      *)
(* table has been added, "hide message" is "Occultar el mesage" under "es" *)
(* and the English text under the unregistered language "de".              *)
C4_FallbackIsEnglish ==
    (loadStep = 2 /\ registrations = 0 /\ lastT # <<>>) =>
        /\ lang = "es" => Last(lastT) = "Occultar el mesage"
        /\ lang = "de" => Last(lastT) = "Hide the message"

(* C4 as amended: the base table of the Notice is the French one, English  *)
(* and Spanish are added to it; "hide message" is "Occultar el mesage"     *)
(* under "es", "Hide the message" under "en", and under the unregistered   *)
(* language "de" it is the base value, "Masquer le message".               *)
C4_FallbackIsBase ==
    (loadStep = 2 /\ registrations = 0 /\ lastT # <<>>) =>
        /\ lang = "es" => Last(lastT) = "Occultar el mesage"
        /\ lang = "en" => Last(lastT) = "Hide the message"
        /\ lang = "de" => /\ "de" \notin DOMAIN messagesByLang
                          /\ Last(lastT) = "Masquer le message"

\* A lookup under "de" right after the module is loaded.
C4_Witness ==
    loadStep = 2 /\ registrations = 0 /\ lang = "de" /\ lastT # <<>>

(* C5. For every language given to addTranslations at least once, the     *)
(* lookup of every key is the entry of the table of the last such call    *)
(* when that table has the key, and the entry of the base table, as given  *)
(* at creation, otherwise.  A call for a language changes the table of     *)
(* that language only: the base table and the tables of the other          *)
(* languages stay as they were, and no step that is not such a call, a     *)
(* lookup least of all, changes the registry or, for a lookup, the active  *)
(* language; the second of two successive lookups under one active         *)
(* language, made on the registry the first one left, returns the text of  *)
(* the first.  The calls are those for an additional language.             *)
C5_LastRegistrationWins ==
    /\ [](/\ \A l \in RegisteredLangs : \A k \in MessageKeys :
                UseTranslation(messagesByLang, l, k).text = ExpectedText(l, k)
          /\ DOMAIN messagesByLang = {"fr"} \cup RegisteredLangs
          /\ messagesByLang["fr"] = [k \in {"hide message"} |-> "Masquer le message"]
          /\ lastT # <<>> =>
                Last(lastT) = IF lang \in RegisteredLangs
                              THEN ExpectedText(lang, "hide message")
                              ELSE "Masquer le message"
          /\ Len(lastT) = 2 => lastT[1] = lastT[2])
    /\ [][ /\ calls' # calls =>
                /\ Len(calls') = Len(calls) + 1
                /\ SubSeq(calls', 1, Len(calls)) = calls
                /\ \A l \in (DOMAIN messagesByLang) \ {Last(calls').lang} :
                      /\ l \in DOMAIN messagesByLang'
                      /\ messagesByLang'[l] = messagesByLang[l]
           /\ calls' = calls => messagesByLang' = messagesByLang
           /\ (lastT' # lastT /\ lastT' # <<>>) =>
                /\ lang' = lang
                /\ calls' = calls
                /\ messagesByLang' = messagesByLang
         ]_vars

\* Spanish registered again, with a table that omits the key, after German,
\* and looked up twice.
C5_Witness ==
    /\ registrations = 2 /\ lang = "es" /\ Len(lastT) = 2
    /\ Len(calls) = 4
    /\ calls[2] = [lang |-> "es", messages |-> NoticeEsMessages]
    /\ calls[3].lang = "de"
    /\ calls[4] = [lang |-> "es", messages |-> <<>>]
    /\ Last(lastT) = "Masquer le message"

(* C6. Every mounted instance whose last render was given no id has an id  *)
(* made of "fr-notice-" and a non-empty suffix, which is the id of its     *)
(* first render without an id, closed or open and whatever ids it was      *)
(* given in between, and is not the id of any other such instance.         *)
C6_StableDistinctIds ==
    \A i \in MountedWithoutId :
        /\ IsDefined(idReturned[i])
        /\ StartsWith(ValueOf(idReturned[i]), "fr-notice-")
        /\ Len(ValueOf(idReturned[i])) > Len("fr-notice-")
        /\ idReturned[i] = idFirst[i]
        /\ \A j \in MountedWithoutId \ {i} : idReturned[j] # idReturned[i]

\* Two instances without an id after a remount, both closed and re-opened:
\* one back from a render that was given an id, the other closed from its
\* first render.
C6_Witness ==
    /\ MountedWithoutId = Instances
    /\ ~idClosed[1] /\ ~idClosed[2]
    /\ idRenders = 3 /\ idPropChanges = 2 /\ idCounter = 3
    /\ idReopened = [i \in Instances |-> TRUE]
    /\ idReturned[1] = Some("fr-notice-1")

(* C7. What cx returns is the truthy arguments, in order and with their    *)
(* repetitions, joined by single spaces; the root class list of the Notice *)
(* is "fr-notice fr-notice--<severity>", then "fr-notice--no-icon" iff     *)
(* iconDisplayed is false, then classes.root and className when given.     *)
C7_ClassComposition ==
    /\ IsDefined(cxOut) =>
          /\ ValueOf(cxOut) = JoinTruthy(cxArgs)
          /\ Words(ValueOf(cxOut)) = TruthyTokens(cxArgs)
    /\ IsDefined(rootClass) =>
          ValueOf(rootClass) = ExpectedRootClass(ValueOf(noticeProps))

\* cx called with a repeated token around a falsy argument.
C7_Witness ==
    /\ cxArgs = << Str("fr-btn"), False, Str("fr-btn") >>
    /\ cxOut = Some("fr-btn fr-btn")

(* C8. Whatever the stylesheet, the severities that NoticeProps accepts    *)
(* are the suffixes S with "fr-notice--S" among its classes, but for       *)
(* "no-icon"; props with a weather-* severity or with witness, kidnapping, *)
(* attack or cyberattack and iconDisplayed false are not accepted, and the *)
(* class list rendered from accepted props never holds both the class of   *)
(* such a severity and "fr-notice--no-icon".                               *)
C8_SeverityType ==
    IsDefined(noticeProps) =>
        /\ AcceptedSeverities = StylesheetSeverities
        /\ \A q \in CandidateProps :
              (IsDefined(q.severity) /\ HasMandatoryIcon(ValueOf(q.severity))
               /\ q.iconDisplayed = Some(FALSE)) => ~InNoticeProps(q)
        /\ (InNoticeProps(ValueOf(noticeProps)) /\ IsDefined(rootClass)) =>
              ~(/\ HasMandatoryIcon(SeverityOf(ValueOf(noticeProps)))
                /\ HasWord(ValueOf(rootClass), "fr-notice--no-icon"))

\* Accepted props with a mandatory-icon severity, rendered.
C8_Witness ==
    /\ IsDefined(noticeProps) /\ IsDefined(rootClass)
    /\ ValueOf(noticeProps).severity = Some("weather-red")
    /\ InNoticeProps(ValueOf(noticeProps))
    /\ HasWord(ValueOf(rootClass), "fr-notice--weather-red")

(* C9. The effect on [buttonElement] never finds refShouldButtonGetFocus   *)
(* set while buttonElement is null: the return commented "This should not  *)
(* be reachable" is never taken.                                           *)
C9_BranchUnreachable == ~unreachableHit

=============================================================================
